---- MODULE Spec2Model ----
(***************************************************************************)
(* A model of the blog-posts REST backend (src/app.py): the Post table, the *)
(* five request handlers, and the SQLAlchemy / SQLite behaviour the         *)
(* handlers rely on (row-id allocation, column defaults, onupdate, flush).  *)
(*                                                                          *)
(* Spec     : requests are served one at a time; every action is one whole  *)
(*            handler.                                                      *)
(* SpecConc : two request threads; the handlers are split where the code    *)
(*            splits them: after the lookup (get_or_404), after the clock   *)
(*            readings of the flush, and after the commit, before the       *)
(*            reload that to_dict triggers.                                 *)
(***************************************************************************)
EXTENDS Integers, Sequences, FiniteSets, TLC

VARIABLES
    table,     \* the post table: a function from the ids present to rows
    now,       \* the clock datetime.utcnow reads (it never runs backwards)
    req,       \* the request served last
    resp,      \* the response to it
    assigned,  \* history: every id a create has assigned so far
    live,      \* history: the ids of the posts created and not deleted, in creation order
    th         \* the request threads of SpecConc

vars == <<table, now, req, resp, assigned, live, th>>

\* ---------------------------------------------------------------- bounds
MaxId == 2      \* ids the store may hand out: 1..MaxId
MaxTime == 1    \* clock ticks: 0..MaxTime

\* ---------------------------------------------------------------- request bodies
\* A JSON value of a key: not in the object, null, or a string.
ABSENT == "<absent>"
NULL == "<null>"
Strings == {"", "A"}
FieldValues == Strings \cup {ABSENT, NULL}

\* request.get_json() of an absent or unparseable body (None, or a 400 raised
\* by the framework), and of a JSON object; `other` says whether the object
\* holds a key besides title and content.
NoBody == [kind |-> "none", title |-> ABSENT, content |-> ABSENT, other |-> FALSE]
Objects ==
    {d \in [kind : {"object"}, title : FieldValues, content : FieldValues, other : BOOLEAN] :
        d.other => (d.title = ABSENT /\ d.content = ABSENT)}

\* request.get_json() of a JSON array or a JSON string, which the handlers
\* treat alike (kind "sequence"): `title` and `content` say whether "title"
\* and "content" are an element of the array (a substring of the string),
\* `other` whether it holds anything else; [] and "" hold nothing.
MEMBER == "<member>"
ArraysAndStrings ==
    {d \in [kind : {"sequence"}, title : {ABSENT, MEMBER},
            content : {ABSENT, MEMBER}, other : BOOLEAN] :
        d.other => (d.title = ABSENT /\ d.content = ABSENT)}

\* request.get_json() of a JSON number or boolean: `other` is its truth value
\* (5 and true against 0 and false)
Numbers == [kind : {"number"}, title : {ABSENT}, content : {ABSENT}, other : BOOLEAN]

Bodies == {NoBody} \cup Objects \cup ArraysAndStrings \cup Numbers
EmptyObject == [kind |-> "object", title |-> ABSENT, content |-> ABSENT, other |-> FALSE]

PostIds == 1..MaxId
Times == 0..MaxTime

\* `'title' in data`
HasKey(data, k) == data[k] # ABSENT

\* (mutant of Truthy) `if data is None` in place of `if not data`
TruthyNotNone(data) == data.kind # "none"

\* the truth value of `data`: None, the empty dict, [], "", 0 and false are
\* falsy
Truthy(data) ==
    /\ data.kind # "none"
    /\ (HasKey(data, "title") \/ HasKey(data, "content") \/ data.other)

\* `'title' in data` raises TypeError: a number or boolean is not iterable
InRaises(data) == data.kind = "number"

\* data['title'] raises TypeError: an array or a string has no string index
SubscriptRaises(data) == data.kind = "sequence"

\* ---------------------------------------------------------------- the Post model
NoPost == [id |-> 0]
NoResp == [status |-> 0, body |-> NoPost]
NoReq == [op |-> "none", id |-> 0, data |-> NoBody]

SetMax(S) == CHOOSE x \in S : \A y \in S : y <= x
SetMin(S) == CHOOSE x \in S : \A y \in S : x <= y

\* (mutant of NextId) the lowest id not in use
NextIdLowestFree(t) == SetMin({i \in 1..(Cardinality(DOMAIN t) + 1) : i \notin DOMAIN t})

\* id = db.Column(db.Integer, primary_key=True): an SQLite INTEGER PRIMARY KEY
\* without AUTOINCREMENT; a new row gets one more than the largest id present.
NextId(t) == IF DOMAIN t = {} THEN 1 ELSE SetMax(DOMAIN t) + 1

\* Post(title=..., content=...) at INSERT: the two column defaults are two
\* calls of datetime.utcnow, created_at first (t1), updated_at second (t2).
NewPost(id, data, t1, t2) ==
    [id |-> id, title |-> data.title, content |-> data.content,
     created_at |-> t1, updated_at |-> t2]

\* datetime.isoformat
Isoformat(t) == ToString(t)

\* Post.to_dict
to_dict(post) ==
    [id |-> post.id, title |-> post.title, content |-> post.content,
     created_at |-> Isoformat(post.created_at),
     updated_at |-> Isoformat(post.updated_at)]

\* nullable=False on title and content: the INSERT or UPDATE fails
ViolatesNotNull(data) == data.title = NULL \/ data.content = NULL

\* Post.query.all(): a table scan, in row-id order
RECURSIVE ScanFrom(_, _)
ScanFrom(t, ids) ==
    IF ids = {} THEN <<>>
    ELSE LET i == SetMin(ids) IN <<t[i]>> \o ScanFrom(t, ids \ {i})

QueryAll(t) == ScanFrom(t, DOMAIN t)

\* a sequence of ids without one id
Remove(s, id) == SelectSeq(s, LAMBDA x : x # id)

\* ---------------------------------------------------------------- handlers
\* (mutant of CreateStatus) `not data.get('title')`: an empty string is refused
CreateStatusNonEmpty(data) ==
    IF ~Truthy(data) THEN 400
    ELSE IF data.kind # "object" THEN 500
    ELSE IF data.title \in {ABSENT, ""} \/ data.content \in {ABSENT, ""} THEN 400
    ELSE IF data.title = NULL \/ data.content = NULL THEN 500
    ELSE 201

\* the status create_post answers: `not data`, then the two `in` tests (400),
\* then data['title'], data['content'] and the commit (500 when one raises)
CreateStatus(data) ==
    IF ~Truthy(data) THEN 400
    ELSE IF InRaises(data) THEN 500
    ELSE IF ~HasKey(data, "title") \/ ~HasKey(data, "content") THEN 400
    ELSE IF SubscriptRaises(data) THEN 500
    ELSE IF ViolatesNotNull(data) THEN 500
    ELSE 201

\* (mutant of UpdateStatus) the body check before get_or_404
UpdateStatusBodyFirst(t, id, data) ==
    IF ~Truthy(data) THEN 400
    ELSE IF id \notin DOMAIN t THEN 404
    ELSE IF InRaises(data) THEN 500
    ELSE IF SubscriptRaises(data) /\ (HasKey(data, "title") \/ HasKey(data, "content"))
    THEN 500
    ELSE IF data.title = NULL \/ data.content = NULL THEN 500
    ELSE 200

\* the status update_post answers: get_or_404 first, then the body check,
\* then the `in` tests, the assignments and the commit (500 when one raises).
\* An array or string that holds neither "title" nor "content" gets past all
\* of them: nothing is assigned and the answer is 200.
UpdateStatus(t, id, data) ==
    IF id \notin DOMAIN t THEN 404
    ELSE IF ~Truthy(data) THEN 400
    ELSE IF InRaises(data) THEN 500
    ELSE IF SubscriptRaises(data) /\ (HasKey(data, "title") \/ HasKey(data, "content"))
    THEN 500
    ELSE IF ViolatesNotNull(data) THEN 500
    ELSE 200

\* (mutant of ApplyFields) `post.content = data.get('content', '')`
ApplyFieldsDefault(post, data) ==
    [post EXCEPT !.title = IF data.title # ABSENT THEN data.title ELSE @,
                 !.content = IF data.content # ABSENT THEN data.content ELSE ""]

\* the two conditional assignments of update_post
ApplyFields(post, data) ==
    [post EXCEPT !.title = IF HasKey(data, "title") THEN data.title ELSE @,
                 !.content = IF HasKey(data, "content") THEN data.content ELSE @]

\* (mutant of Flush) updated_at refreshed on every commit
FlushAlways(old, new, t) == [new EXCEPT !.updated_at = t]

\* db.session.commit() of a loaded post: the flush emits an UPDATE, and with it
\* onupdate=datetime.utcnow, only when an attribute differs from its loaded value
Flush(old, new, t) ==
    IF new.title # old.title \/ new.content # old.content
    THEN [new EXCEPT !.updated_at = t]
    ELSE old

\* the time a request is served at: the clock has moved on by zero or one tick
Later(t) == {u \in Times : t <= u /\ u <= t + 1}

\* [post.to_dict() for post in posts]
Serialize(posts) == [i \in 1..Len(posts) |-> to_dict(posts[i])]

\* what get_post answers: get_or_404, then the representation
GetResponse(t, id) ==
    IF id \in DOMAIN t
    THEN [status |-> 200, body |-> to_dict(t[id])]
    ELSE [status |-> 404, body |-> NoPost]

\* the development server of Spec serves one request at a time: a handler
\* runs when no request is in progress
Idle == req.op = "none"

get_posts ==
    /\ Idle
    /\ req' = [op |-> "LIST", id |-> 0, data |-> NoBody]
    /\ resp' = [status |-> 200, body |-> Serialize(QueryAll(table))]
    /\ UNCHANGED <<table, now, assigned, live, th>>

get_post ==
    \E id \in PostIds :
        /\ Idle
        /\ req' = [op |-> "GET", id |-> id, data |-> NoBody]
        /\ resp' = GetResponse(table, id)
        /\ UNCHANGED <<table, now, assigned, live, th>>

create_post ==
    \E data \in Bodies : \E t1 \in Later(now) : \E t2 \in Later(t1) :
        LET id == NextId(table)
            post == NewPost(id, data, t1, t2)
        IN  /\ Idle
            /\ req' = [op |-> "POST", id |-> 0, data |-> data]
            /\ IF CreateStatus(data) = 201
               THEN /\ id <= MaxId
                    /\ table' = (id :> post) @@ table
                    /\ now' = t2
                    /\ assigned' = assigned \cup {id}
                    /\ live' = Append(live, id)
                    /\ resp' = [status |-> 201, body |-> to_dict(post)]
               ELSE /\ resp' = [status |-> CreateStatus(data), body |-> NoPost]
                    /\ UNCHANGED <<table, now, assigned, live>>
            /\ UNCHANGED th

update_post ==
    \E id \in PostIds : \E data \in Bodies : \E t \in Later(now) :
        /\ Idle
        /\ req' = [op |-> "PUT", id |-> id, data |-> data]
        /\ IF UpdateStatus(table, id, data) = 200
           THEN LET post == Flush(table[id], ApplyFields(table[id], data), t)
                IN  /\ table' = [table EXCEPT ![id] = post]
                    /\ resp' = [status |-> 200, body |-> to_dict(post)]
           ELSE /\ resp' = [status |-> UpdateStatus(table, id, data), body |-> NoPost]
                /\ UNCHANGED table
        /\ now' = t
        /\ UNCHANGED <<assigned, live, th>>

delete_post ==
    \E id \in PostIds :
        /\ Idle
        /\ req' = [op |-> "DELETE", id |-> id, data |-> NoBody]
        /\ IF id \in DOMAIN table
           THEN /\ table' = [i \in DOMAIN table \ {id} |-> table[i]]
                /\ live' = Remove(live, id)
                /\ resp' = [status |-> 200, body |-> NoPost]
           ELSE /\ resp' = [status |-> 404, body |-> NoPost]
                /\ UNCHANGED <<table, live>>
        /\ UNCHANGED <<now, assigned, th>>

\* the response leaves and the request context is torn down
send_response ==
    /\ ~Idle
    /\ req' = NoReq
    /\ resp' = NoResp
    /\ UNCHANGED <<table, now, assigned, live, th>>

\* ---------------------------------------------------------------- concurrent requests
\* Two threads of the development server, each with its own session. A thread
\* is idle, has loaded its post (after get_or_404), has stamped (a create
\* has read the clock for created_at and not yet for updated_at), has flushed (the
\* parameters of its INSERT or UPDATE are built, the clock read for them, and
\* the statement is not yet sent: no lock is held), has committed (before the
\* reload of the expired row that to_dict triggers), or is done. `t1` and
\* `t2` are the clock readings taken for the statement.
Threads == {1, 2}
IdleThread ==
    [pc |-> "idle", op |-> "none", id |-> 0, data |-> NoBody, loaded |-> NoPost,
     status |-> 0, found |-> FALSE, t1 |-> 0, t2 |-> 0]

\* the bodies the threads send: none, a title, a key that is neither field
ConcBodies ==
    {NoBody,
     [kind |-> "object", title |-> "A", content |-> ABSENT, other |-> FALSE],
     [kind |-> "object", title |-> "", content |-> ABSENT, other |-> FALSE],
     [kind |-> "object", title |-> ABSENT, content |-> ABSENT, other |-> TRUE]}

Done(w, status, found) ==
    th' = [th EXCEPT ![w] = [@ EXCEPT !.pc = "done", !.status = status,
                                      !.found = found, !.loaded = NoPost]]

\* the reload of the row that to_dict triggers after a commit (the commit
\* expires the instance): SELECT ... WHERE id = ?, and ObjectDeletedError, a
\* 500, when the row is gone
conc_reload(w) ==
    /\ th[w].pc = "committed"
    /\ Done(w, IF th[w].id \in DOMAIN table THEN th[w].status ELSE 500, th[w].found)
    /\ UNCHANGED <<table, now, req, resp, assigned, live>>

\* create_post up to the first clock reading: the body check, Post(...), and
\* the flush starts to build the parameters of the INSERT, calling the
\* created_at default
conc_create_stamp(w) ==
    \E t1 \in Later(now) :
        /\ th[w].pc = "idle"
        /\ now' = t1
        /\ th' = [th EXCEPT ![w] = [IdleThread EXCEPT !.pc = "stamped", !.op = "POST",
                                        !.t1 = t1]]
        /\ UNCHANGED <<table, req, resp, assigned, live>>

\* the second clock reading of the flush: the updated_at default, a call of
\* its own, which other threads may run before
conc_create_flush(w) ==
    \E t2 \in Later(now) :
        /\ th[w].pc = "stamped"
        /\ th[w].op = "POST"
        /\ now' = t2
        /\ th' = [th EXCEPT ![w] = [@ EXCEPT !.pc = "flushed", !.t2 = t2]]
        /\ UNCHANGED <<table, req, resp, assigned, live>>

\* the INSERT, which gives the id, and its commit, with the readings taken
\* at the flush
conc_create_commit(w) ==
    LET me == th[w]
        id == NextId(table)
        data == [kind |-> "object", title |-> "A", content |-> "A", other |-> FALSE]
    IN  /\ me.pc = "flushed"
        /\ me.op = "POST"
        /\ id <= MaxId
        /\ table' = (id :> NewPost(id, data, me.t1, me.t2)) @@ table
        /\ assigned' = assigned \cup {id}
        /\ live' = Append(live, id)
        /\ th' = [th EXCEPT ![w] = [IdleThread EXCEPT !.pc = "committed", !.op = "POST",
                                        !.id = id, !.status = 201]]
        /\ UNCHANGED <<now, req, resp>>

\* update_post up to its commit: Post.query.get_or_404 (a SELECT), then the
\* body check
conc_update_lookup(w) ==
    \E id \in PostIds : \E data \in ConcBodies :
        /\ th[w].pc = "idle"
        /\ th' = [th EXCEPT ![w] =
                    IF UpdateStatus(table, id, data) = 200
                    THEN [IdleThread EXCEPT !.pc = "loaded", !.op = "PUT", !.id = id,
                                            !.data = data, !.loaded = table[id]]
                    ELSE [IdleThread EXCEPT !.pc = "done", !.op = "PUT", !.id = id,
                                            !.status = UpdateStatus(table, id, data)]]
        /\ UNCHANGED <<table, now, req, resp, assigned, live>>

\* the two assignments of update_post and the start of the flush: with a net
\* change against the loaded row the parameters of the UPDATE are built,
\* onupdate=datetime.utcnow called for them; with none the clock is not read
conc_update_flush(w) ==
    LET me == th[w]
        dirty == ApplyFields(me.loaded, me.data) # me.loaded
    IN  /\ me.pc = "loaded"
        /\ me.op = "PUT"
        /\ IF dirty
           THEN \E t \in Later(now) :
                    /\ now' = t
                    /\ th' = [th EXCEPT ![w] = [@ EXCEPT !.pc = "flushed", !.t2 = t]]
           ELSE /\ th' = [th EXCEPT ![w] = [@ EXCEPT !.pc = "flushed"]]
                /\ UNCHANGED now
        /\ UNCHANGED <<table, req, resp, assigned, live>>

\* the commit of update_post. With a net change the UPDATE ... WHERE id = ? is
\* sent: it sets the changed columns and updated_at (the reading taken at the
\* flush) and raises StaleDataError, a 500, when it matches no row; with none
\* nothing is sent. to_dict follows in conc_reload.
conc_update_commit(w) ==
    LET me == th[w]
        new == ApplyFields(me.loaded, me.data)
        dirty == new # me.loaded
        there == me.id \in DOMAIN table
    IN  /\ me.pc = "flushed"
        /\ me.op = "PUT"
        /\ IF there /\ dirty
           THEN table' = [table EXCEPT ![me.id] =
                    [@ EXCEPT !.title = IF new.title # me.loaded.title
                                        THEN new.title ELSE @,
                              !.content = IF new.content # me.loaded.content
                                          THEN new.content ELSE @,
                              !.updated_at = me.t2]]
           ELSE UNCHANGED table
        /\ IF dirty /\ ~there
           THEN Done(w, 500, FALSE)
           ELSE th' = [th EXCEPT ![w] = [@ EXCEPT !.pc = "committed", !.status = 200,
                                                  !.found = there, !.loaded = NoPost]]
        /\ UNCHANGED <<now, req, resp, assigned, live>>

\* delete_post up to its commit: Post.query.get_or_404
conc_delete_lookup(w) ==
    \E id \in PostIds :
        /\ th[w].pc = "idle"
        /\ th' = [th EXCEPT ![w] =
                    IF id \in DOMAIN table
                    THEN [IdleThread EXCEPT !.pc = "loaded", !.op = "DELETE", !.id = id,
                                            !.loaded = table[id]]
                    ELSE [IdleThread EXCEPT !.pc = "done", !.op = "DELETE", !.id = id,
                                            !.status = 404]]
        /\ UNCHANGED <<table, now, req, resp, assigned, live>>

\* db.session.delete(post); db.session.commit(): DELETE ... WHERE id = ?. A
\* DELETE that matches no row is a warning of the mapper, not an error, and the
\* handler answers 200.
conc_delete_commit(w) ==
    LET me == th[w]
        there == me.id \in DOMAIN table
    IN  /\ me.pc = "loaded"
        /\ me.op = "DELETE"
        /\ table' = [i \in DOMAIN table \ {me.id} |-> table[i]]
        /\ live' = Remove(live, me.id)
        /\ Done(w, 200, there)
        /\ UNCHANGED <<now, req, resp, assigned>>

\* the response of a thread leaves
conc_send_response(w) ==
    /\ th[w].pc = "done"
    /\ th' = [th EXCEPT ![w] = IdleThread]
    /\ UNCHANGED <<table, now, req, resp, assigned, live>>

Init ==
    /\ table = <<>>
    /\ now = 0
    /\ req = NoReq
    /\ resp = NoResp
    /\ assigned = {}
    /\ live = <<>>
    /\ th = [w \in Threads |-> IdleThread]

Next ==
    \/ get_posts
    \/ get_post
    \/ create_post
    \/ update_post
    \/ delete_post
    \/ send_response

Spec == Init /\ [][Next]_vars

NextConc ==
    \E w \in Threads :
        \/ conc_create_stamp(w)
        \/ conc_create_flush(w)
        \/ conc_create_commit(w)
        \/ conc_reload(w)
        \/ conc_update_lookup(w)
        \/ conc_update_flush(w)
        \/ conc_update_commit(w)
        \/ conc_delete_lookup(w)
        \/ conc_delete_commit(w)
        \/ conc_send_response(w)

SpecConc == Init /\ [][NextConc]_vars

\* ---------------------------------------------------------------- claims
\* A step of Spec that serves a request: the handler of `op` ran.
Serves(op) == Idle /\ req'.op = op

\* C1 (as claimed): the id a successful create assigns was never assigned by
\* an earlier create, deleted posts included. The code reuses the id of a
\* deleted post that had the largest id.
C1_IdNeverReused ==
    [][(Serves("POST") /\ resp'.status = 201) => resp'.body.id \notin assigned]_vars

\* C2 (as claimed): every update answered 200 sets updated_at to the time of
\* the request, whether or not a field changed.
C2_UpdateAlwaysRefreshes ==
    [][(Serves("PUT") /\ resp'.status = 200) =>
          /\ table'[req'.id].updated_at = now'
          /\ table'[req'.id].updated_at >= table[req'.id].updated_at]_vars

\* C2 (amended): an update answered 200 that changes the stored title or
\* content sets updated_at to the time of the request; one that changes
\* neither leaves updated_at as it was; updated_at never moves back.
C2_UpdateRefreshesOnChange ==
    [][(Serves("PUT") /\ resp'.status = 200) =>
          LET d == req'.data
              old == table[req'.id]
              new == table'[req'.id]
              changes == \/ (d.title # ABSENT /\ d.title # old.title)
                         \/ (d.content # ABSENT /\ d.content # old.content)
          IN  /\ changes => new.updated_at = now'
              /\ ~changes => new.updated_at = old.updated_at
              /\ new.updated_at >= old.updated_at]_vars

\* an update with neither title nor content was answered 200 and updated_at
\* is older than the time of the request
C2_Witness ==
    /\ req.op = "PUT"
    /\ resp.status = 200
    /\ req.data.title = ABSENT
    /\ req.data.content = ABSENT
    /\ table[req.id].updated_at < now

\* C3 (as claimed): PUT on an existing post answers 400 only for an absent or
\* unparseable body, and 200 for every JSON object, the empty one included,
\* leaving title and content alone when the object has neither.
C3_Only400WhenNoBody ==
    [][(Serves("PUT") /\ req'.id \in DOMAIN table) =>
          LET d == req'.data
          IN  /\ resp'.status = 400 <=> d.kind = "none"
              /\ d.kind = "object" => resp'.status = 200
              /\ (d.kind = "object" /\ d.title = ABSENT /\ d.content = ABSENT) =>
                    /\ table'[req'.id].title = table[req'.id].title
                    /\ table'[req'.id].content = table[req'.id].content]_vars

\* C3 (amended): PUT on an existing post answers 400 for an absent or
\* unparseable body and for the empty object; for a non-empty object whose
\* title and content, where present, are strings it answers 200, and leaves
\* title and content alone when the object has neither; a body that is a JSON
\* array, string, number or boolean is answered 200, 400 or 500 and changes
\* nothing.
C3_400WhenNoBodyOrEmptyObject ==
    [][(Serves("PUT") /\ req'.id \in DOMAIN table) =>
          LET d == req'.data
          IN  /\ (d.kind = "none" \/ d = EmptyObject) => resp'.status = 400
              /\ (d.kind = "object" /\ d # EmptyObject /\ d.title # NULL /\ d.content # NULL) =>
                    resp'.status = 200
              /\ (d.kind = "object" /\ d # EmptyObject /\ d.title = ABSENT /\ d.content = ABSENT) =>
                    /\ table'[req'.id].title = table[req'.id].title
                    /\ table'[req'.id].content = table[req'.id].content
              /\ d.kind \notin {"none", "object"} =>
                    (resp'.status \in {200, 400, 500} /\ table' = table)]_vars

\* PUT with the empty object on an existing post was answered 400
C3_Witness ==
    /\ req.op = "PUT"
    /\ req.id \in DOMAIN table
    /\ req.data = EmptyObject
    /\ resp.status = 400

\* C4 (as claimed): a created post has created_at equal to updated_at, and a
\* get of its id right afterwards answers 200 with the same representation.
\* The code takes the two timestamps from two readings of the clock.
C4_CreateThenGet ==
    (req.op = "POST" /\ resp.status = 201) =>
        /\ resp.body.title = req.data.title
        /\ resp.body.content = req.data.content
        /\ resp.body.created_at = resp.body.updated_at
        /\ GetResponse(table, resp.body.id) = [status |-> 200, body |-> resp.body]

\* C5 (as claimed): in every reachable state every stored post has
\* updated_at >= created_at. With overlapping requests an UPDATE built before
\* a delete and sent after a create that reuses the id writes a clock reading
\* older than the created_at of the row it lands on.
C5_UpdatedNotBeforeCreated ==
    \A id \in DOMAIN table : table[id].updated_at >= table[id].created_at

\* C6 (as claimed): POST answers 400, and changes nothing, when the body is
\* absent or unparseable or lacks title or lacks content; in every other case
\* it inserts exactly one post and answers 201 with its representation.
C6_CreateOr400 ==
    [][Serves("POST") =>
          LET d == req'.data
              missing == d.kind = "none" \/ d.title = ABSENT \/ d.content = ABSENT
          IN  IF missing
              THEN resp'.status = 400 /\ table' = table
              ELSE /\ resp'.status = 201
                   /\ \E id \in PostIds \ DOMAIN table :
                         /\ DOMAIN table' = DOMAIN table \cup {id}
                         /\ \A i \in DOMAIN table : table'[i] = table[i]
                         /\ resp'.body = to_dict(table'[id])]_vars

\* C6 (amended): POST answers 400, and changes nothing, when the body is
\* absent or unparseable or is a JSON object that lacks title or lacks
\* content; for an object with title and content both present as strings
\* (empty ones included) it inserts exactly one post and answers 201 with its
\* representation; for an object with either present as null it answers 500
\* and changes nothing; a body that is a JSON array, string, number or
\* boolean is answered 400 or 500 and changes nothing.
C6_CreateOr400OrNull ==
    [][Serves("POST") =>
          LET d == req'.data
              missing == d.title = ABSENT \/ d.content = ABSENT
          IN  /\ (d.kind = "none" \/ (d.kind = "object" /\ missing)) =>
                   (resp'.status = 400 /\ table' = table)
              /\ (d.kind = "object" /\ d.title \in Strings /\ d.content \in Strings) =>
                   /\ resp'.status = 201
                   /\ \E id \in PostIds \ DOMAIN table :
                         /\ DOMAIN table' = DOMAIN table \cup {id}
                         /\ \A i \in DOMAIN table : table'[i] = table[i]
                         /\ table'[id].title = d.title
                         /\ table'[id].content = d.content
                         /\ resp'.body = to_dict(table'[id])
              /\ (d.kind = "object" /\ ~missing /\ (d.title = NULL \/ d.content = NULL)) =>
                   (resp'.status = 500 /\ table' = table)
              /\ d.kind \notin {"none", "object"} =>
                   (resp'.status \in {400, 500} /\ table' = table)]_vars

\* a POST whose title and content are empty strings was answered 201
C6_Witness ==
    /\ req.op = "POST"
    /\ req.data.title = ""
    /\ req.data.content = ""
    /\ resp.status = 201

\* C7: GET, PUT and DELETE of an id that is not stored answer 404 and change
\* nothing, PUT whatever its body is.
C7_NotFound ==
    [][((Serves("GET") \/ Serves("PUT") \/ Serves("DELETE")) /\ req'.id \notin DOMAIN table) =>
          (resp'.status = 404 /\ table' = table)]_vars

\* a PUT without a body, of an id that is not stored, was answered 404
C7_Witness ==
    /\ req.op = "PUT"
    /\ req.data.kind = "none"
    /\ req.id \notin DOMAIN table
    /\ resp.status = 404

\* C8: an update answered 200 changes, of its post, only the fields its body
\* holds and updated_at, and no other post; one answered 400 or 404 changes
\* nothing.
C8_UpdateFrame ==
    [][Serves("PUT") =>
          LET d == req'.data
              id == req'.id
          IN  /\ resp'.status = 200 =>
                    /\ DOMAIN table' = DOMAIN table
                    /\ \A i \in DOMAIN table \ {id} : table'[i] = table[i]
                    /\ table'[id].id = table[id].id
                    /\ table'[id].created_at = table[id].created_at
                    /\ table'[id].title = IF d.title = ABSENT THEN table[id].title ELSE d.title
                    /\ table'[id].content = IF d.content = ABSENT THEN table[id].content
                                            ELSE d.content
              /\ resp'.status \in {400, 404} => table' = table]_vars

\* an update holding a title and no content was answered 200 while a second
\* post was stored, and the content is still one a create gave
C8_Witness ==
    /\ req.op = "PUT"
    /\ resp.status = 200
    /\ req.data.title # ABSENT
    /\ req.data.content = ABSENT
    /\ table[req.id].content = "A"
    /\ Cardinality(DOMAIN table) = 2

\* C9: GET /posts answers 200 with the posts created and not since deleted,
\* each once, in the order of their creation.
C9_ListIsLivePostsInOrder ==
    req.op = "LIST" =>
        /\ resp.status = 200
        /\ Len(resp.body) = Len(live)
        /\ \A i \in 1..Len(live) : \A j \in 1..Len(live) : live[i] = live[j] => i = j
        /\ \A i \in 1..Len(live) :
              /\ live[i] \in DOMAIN table
              /\ resp.body[i] = to_dict(table[live[i]])

\* GET /posts answered two posts
C9_Witness ==
    /\ req.op = "LIST"
    /\ Len(resp.body) = 2

\* C10 (as claimed): the lookup and the commit of an update or a delete are
\* one atomic step, so an update or a delete answered 200 found its post still
\* stored when it committed (`found`); of two DELETEs of one post only one
\* answers 200. In the code another thread may delete the post between the
\* two.
C10_LookupAndCommitAtomic ==
    \A w \in Threads :
        (th[w].pc = "done" /\ th[w].op \in {"PUT", "DELETE"} /\ th[w].status = 200) =>
            th[w].found

====
